---- MODULE Spec2Model ----
(***************************************************************************)
(* Model of src/main.py: the batched, retrying Google Trends fetch         *)
(* (batch, fetch_google_trends), the configuration check, the filter /     *)
(* CPC / merge tail and the output of main(), and keyword expansion.       *)
(*                                                                         *)
(* Spec is the pipeline run of main(); the list that keyword expansion     *)
(* hands to the fetch is drawn in Init.  SpecBatch applies batch() on its  *)
(* own, SpecExpand applies expand_keywords_gemini_flash() on its own.      *)
(*                                                                         *)
(* A keyword is a string, a provider response is either an error or a     *)
(* table (a number of rows, a set of columns, one series per keyword       *)
(* column).  A trends score is the arithmetic mean of a series, kept as   *)
(* the exact fraction num/den.  A CPC value is kept in cents.              *)
(***************************************************************************)
EXTENDS Integers, Sequences, FiniteSets, TLC

\* ------------------------------------------------------------------ bounds
\* MaxKw: keywords in the input list; MaxBatch: batch_size; MaxRetries:
\* retries; MaxCalls: total_batches * retries, the most provider calls one
\* run can make; MaxRows: rows of a provider table that has rows.
MaxKw == 3
MaxBatch == 2
MaxRetries == 3
MaxCalls == 6
MaxRows == 1
MaxSeeds == 2
MaxLines == 2

\* ------------------------------------------------------ program defaults
DefaultBackoff == 5
DefaultDelay == 15
DefaultMaxExpansions == 5

\* ------------------------------------------------------- input universes
Universe == <<"p", "q r", "s", "t u v", "w">>
Values == {0, 100}
MinScores == {0, 50}
IsPartial == "isPartial"

KeywordLists == {SubSeq(Universe, 1, n) : n \in 0..MaxKw}
BatchSizes == (0 - 1)..MaxBatch
RetryValues == 0..MaxRetries
BackoffValues == {0, DefaultBackoff}
DelayValues == {DefaultDelay}

\* ------------------------------------------------------------ helpers
Range(s) == {s[x] : x \in 1..Len(s)}

Min2(a, b) == IF a <= b THEN a ELSE b

RECURSIVE SumSeq(_)
SumSeq(s) == IF s = <<>> THEN 0 ELSE Head(s) + SumSeq(Tail(s))

RECURSIVE Flatten(_)
Flatten(ss) == IF ss = <<>> THEN <<>> ELSE Head(ss) \o Flatten(Tail(ss))

RECURSIVE SelectKw(_, _)
SelectKw(s, keep) ==
    IF s = <<>> THEN <<>>
    ELSE IF Head(s) \in keep THEN <<Head(s)>> \o SelectKw(Tail(s), keep)
         ELSE SelectKw(Tail(s), keep)

\* ---------------------------------------------------------------- batch
\* list(islice(it, n)): the next n elements of the iterator (fewer at the
\* end), where pos elements have been consumed already.
isliceFullOnly(s, pos, n) ==
    IF pos + n <= Len(s) THEN SubSeq(s, pos + 1, pos + n) ELSE <<>>

islice(s, pos, n) == SubSeq(s, pos + 1, Min2(pos + n, Len(s)))

\* islice(it, n) raises ValueError for a negative n
isliceRaises(n) == n < 0

\* the // of line 117 raises ZeroDivisionError for batch_size 0
DivisionByZero(n) == n = 0

\* total_batches = (len(keywords) + batch_size - 1) // batch_size
TotalBatches(kws, n) == (Len(kws) + n - 1) \div n

\* ------------------------------------------------------ provider tables
NoData == [error |-> FALSE, rows |-> 0, cols |-> {}, series |-> <<>>]
ErrorResp == [error |-> TRUE, rows |-> 0, cols |-> {}, series |-> <<>>]

\* the series a column can hold: r interest values, rising over the window
Series(r) ==
    {f \in [1..r -> Values] : \A x \in 1..r : \A y \in x..r : f[x] <= f[y]}

\* tables with MaxRows rows: any set of the requested keywords and isPartial
\* as columns
RowTables(req) ==
    UNION { { [error |-> FALSE, rows |-> MaxRows, cols |-> c, series |-> f] :
                  f \in [c \ {IsPartial} -> Series(MaxRows)] } :
            c \in SUBSET (Range(req) \cup {IsPartial}) }

\* tables without rows: no column at all, or the requested columns
NoRowTables(req) ==
    { [error |-> FALSE, rows |-> 0, cols |-> c, series |-> [k \in c |-> <<>>]] :
          c \in {{}, Range(req)} }

Tables(req) == RowTables(req) \cup NoRowTables(req)

\* what pytrends.build_payload + interest_over_time can give for a request
Responses(req) == {ErrorResp} \cup Tables(req)

IsEmptyNoRows(d) == d.rows = 0

\* data.empty: a frame with no rows or no columns
IsEmpty(d) == d.rows = 0 \/ d.cols = {}

\* data.drop(columns=['isPartial']) when that column is there
DropIsPartial(d) == [d EXCEPT !.cols = d.cols \ {IsPartial}]

\* data[kw].mean()
Mean(d, kw) == [num |-> SumSeq(d.series[kw]), den |-> d.rows]

RECURSIVE BatchRecordsZeroFill(_, _)
BatchRecordsZeroFill(kwb, d) ==
    IF kwb = <<>> THEN <<>>
    ELSE <<[keyword |-> Head(kwb),
            trends_score |-> IF Head(kwb) \in d.cols
                                THEN [num |-> SumSeq(d.series[Head(kwb)]), den |-> d.rows]
                                ELSE [num |-> 0, den |-> 1]]>>
         \o BatchRecordsZeroFill(Tail(kwb), d)

\* the for loop over kw_batch: one record per batch keyword that is a column
RECURSIVE BatchRecords(_, _)
BatchRecords(kwb, d) ==
    IF kwb = <<>> THEN <<>>
    ELSE (IF Head(kwb) \in d.cols
             THEN <<[keyword |-> Head(kwb), trends_score |-> Mean(d, Head(kwb))]>>
             ELSE <<>>)
         \o BatchRecords(Tail(kwb), d)

RequestHeadOnly(b, kwb) == [batch |-> b, kws |-> <<Head(kwb)>>]

\* the request of one attempt: build_payload(kw_batch, ...)
Request(b, kwb) == [batch |-> b, kws |-> kwb]

\* the observable trace of the run: provider calls and time.sleep calls
CallEvent(req) == [ev |-> "call", batch |-> req.batch, kws |-> req.kws, dur |-> 0]
SleepEvent(site, b, d) == [ev |-> site, batch |-> b, kws |-> <<>>, dur |-> d]

\* config.yaml as main reads it: is the entry there (and not empty)
Configs == [gemini_api_key : BOOLEAN, brand_website : BOOLEAN,
            competitor_website : BOOLEAN]

\* lines 170-175: a missing key or URL
ConfigError(c) == ~c.gemini_api_key \/ ~c.brand_website \/ ~c.competitor_website

\* lines 179-201: the network activity of main before the fetch
Preparation == <<"scrape_brand", "scrape_competitor", "generate_seeds", "generate_expansion">>

NoOutput == [written |-> FALSE, records |-> <<>>]

\* lines 241-248: the CSV and JSON files hold the rows of final_df
Written(df) == [written |-> TRUE, records |-> df.rows]

VARIABLES
    cfg, io, output, seed_keywords, response_text, max_expansions,
    keywords, batch_size, retries, backoff, delay, min_score,
    pc, it, i, kw_batch, attempt, total_batches,
    trends_data, data, inflight, log, outcomes, batches, status,
    trends_df, cpc_df, final_df

pipeVars == <<cfg, io, output, seed_keywords, response_text, max_expansions>>
inputVars == <<keywords, batch_size, retries, backoff, delay, min_score>>
loopVars == <<it, i, kw_batch, attempt, total_batches>>
mainVars == <<trends_df, cpc_df, final_df>>
vars == <<cfg, io, output, seed_keywords, response_text, max_expansions,
          keywords, batch_size, retries, backoff, delay, min_score,
          pc, it, i, kw_batch, attempt, total_batches,
          trends_data, data, inflight, log, outcomes, batches, status,
          trends_df, cpc_df, final_df>>

BackoffWaitConstant(a) == backoff

\* wait = backoff * attempt
BackoffWait(a) == backoff * a

SuccessNoSleep(lg, b) == lg

\* time.sleep(delay) after a successful batch
SuccessSleep(lg, b) == Append(lg, SleepEvent("delay", b, delay))

\* time.sleep(wait) before a retry
RetrySleep(lg, b, a) == Append(lg, SleepEvent("backoff", b, BackoffWait(a)))

\* if attempt < retries (inside the except branch)
ShouldRetry(a) == a < retries

WhileConditionInclusive(a) == a <= retries

\* while attempt < retries
WhileCondition(a) == a < retries

CarriedAttempt(a) == a

\* attempt = 0, first statement of the body of the for loop
InitialAttempt(a) == 0

AfterSuccessNoBreak == "while"

\* where control goes after a successful batch: break leaves the while loop
\* and the for loop takes the next batch
AfterSuccess == "for"

AfterSkipAbort == "return"

\* where control goes after "Skipping batch": break leaves the while loop
\* and the for loop takes the next batch
AfterSkip == "for"

\* ------------------------------------------------------------ data frames
NullScore == [num |-> 0, den |-> 0]
NullCpc == 0 - 1
Frame(c, r) == [cols |-> c, rows |-> r]
NoFrame == Frame(<<>>, <<>>)
Row(kw, sc, cpc) == [keyword |-> kw, trends_score |-> sc, cpc_usd |-> cpc]

\* DataFrame.empty
FrameEmpty(df) == df.cols = <<>> \/ df.rows = <<>>

\* len(keyword.split()) for the keywords of the universe
WordCount(kw) ==
    CASE kw = "q r" -> 2
      [] kw = "t u v" -> 3
      [] OTHER -> 1

\* get_cpc_from_ubersuggest: round(0.5 + 0.1 * words, 2), in cents
get_cpc_from_ubersuggest(kw) == 50 + 10 * WordCount(kw)

\* if not trends_data
NoTrendsData(td) == td = <<>>

FallbackFrameEmpty(kws) == [cols |-> <<"keyword">>, rows |-> <<>>]

\* pd.DataFrame({"keyword": expanded_keywords})
FallbackFrame(kws) ==
    Frame(<<"keyword">>, [x \in 1..Len(kws) |-> Row(kws[x], NullScore, NullCpc)])

\* pd.DataFrame(trends_data)
TrendsFrame(td) ==
    Frame(<<"keyword", "trends_score">>,
          [x \in 1..Len(td) |-> Row(td[x].keyword, td[x].trends_score, NullCpc)])

ScoreAbove(sc, ms) == sc.num > ms * sc.den

\* trends_score >= min_score on the mean num/den (den > 0)
ScoreAtLeast(sc, ms) == sc.num >= ms * sc.den

RECURSIVE FilterRows(_, _)
FilterRows(rows, ms) ==
    IF rows = <<>> THEN <<>>
    ELSE (IF ScoreAtLeast(Head(rows).trends_score, ms) THEN <<Head(rows)>> ELSE <<>>)
         \o FilterRows(Tail(rows), ms)

\* trends_df[trends_df["trends_score"] >= min_score]
FilterFrame(df, ms) == Frame(df.cols, FilterRows(df.rows, ms))

CpcFrameSkipped(df) == [cols |-> <<"keyword", "cpc_usd">>, rows |-> <<>>]

\* lines 222-231: the CPC frame for the keywords of trends_df
CpcFrame(df) ==
    IF FrameEmpty(df) THEN Frame(<<"keyword", "cpc_usd">>, <<>>)
    ELSE Frame(<<"keyword", "cpc_usd">>,
               [x \in 1..Len(df.rows) |->
                   Row(df.rows[x].keyword, NullScore,
                       get_cpc_from_ubersuggest(df.rows[x].keyword))])

\* rows of the right frame whose keyword matches, in order
RECURSIVE Matches(_, _)
Matches(rrows, kw) ==
    IF rrows = <<>> THEN <<>>
    ELSE (IF Head(rrows).keyword = kw THEN <<Head(rrows)>> ELSE <<>>)
         \o Matches(Tail(rrows), kw)

RECURSIVE JoinRows(_, _)
JoinRows(lrows, rrows) ==
    IF lrows = <<>> THEN <<>>
    ELSE LET l == Head(lrows)
             m == Matches(rrows, l.keyword)
         IN  (IF m = <<>> THEN <<Row(l.keyword, l.trends_score, NullCpc)>>
              ELSE [x \in 1..Len(m) |-> Row(l.keyword, l.trends_score, m[x].cpc_usd)])
             \o JoinRows(Tail(lrows), rrows)

RECURSIVE CrossRows(_, _)
CrossRows(lrows, rrows) ==
    IF lrows = <<>> THEN <<>>
    ELSE [x \in 1..Len(rrows) |->
             [keyword |-> Head(lrows).keyword,
              trends_score |-> Head(lrows).trends_score,
              cpc_usd |-> rrows[x].cpc_usd]]
         \o CrossRows(Tail(lrows), rrows)

MergeCross(left, right) ==
    [cols |-> left.cols \o <<"cpc_usd">>, rows |-> CrossRows(left.rows, right.rows)]

\* pd.merge(left, right, on="keyword", how="left")
MergeLeft(left, right) ==
    Frame(left.cols \o <<"cpc_usd">>, JoinRows(left.rows, right.rows))

\* lines 214-220
BuildTrendsFrame(td, kws, ms) ==
    IF NoTrendsData(td) THEN FallbackFrame(kws)
    ELSE FilterFrame(TrendsFrame(td), ms)

\* lines 233-236
BuildFinalFrame(tdf, cdf) ==
    IF ~FrameEmpty(tdf) /\ ~FrameEmpty(cdf) THEN MergeLeft(tdf, cdf) ELSE tdf

\* --------------------------------------------------------------- states
\* the state of everything a run has not touched yet
Untouched ==
    /\ io = <<>>
    /\ output = NoOutput
    /\ min_score = 0
    /\ it = 0
    /\ i = 0
    /\ kw_batch = <<>>
    /\ attempt = 0
    /\ total_batches = 0
    /\ trends_data = <<>>
    /\ data = NoData
    /\ inflight = {}
    /\ log = <<>>
    /\ outcomes = <<>>
    /\ batches = <<>>
    /\ status = <<>>
    /\ trends_df = NoFrame
    /\ cpc_df = NoFrame
    /\ final_df = NoFrame

Init ==
    /\ cfg \in Configs
    /\ seed_keywords = <<>>
    /\ response_text = <<>>
    /\ max_expansions = DefaultMaxExpansions
    /\ keywords \in KeywordLists
    /\ batch_size \in BatchSizes
    /\ retries \in RetryValues
    /\ (batch_size >= 1 => TotalBatches(keywords, batch_size) * retries <= MaxCalls)
    /\ backoff \in BackoffValues
    /\ delay \in DelayValues
    /\ pc = "main"
    /\ Untouched

\* lines 164-202 of main: a configuration without the key or a URL ends the
\* run at once; otherwise the sites are scraped, the seed keywords extracted
\* and expanded, and the fetch is entered
MainStart ==
    /\ pc = "main"
    /\ IF ConfigError(cfg)
          THEN /\ pc' = "aborted"
               /\ io' = io
          ELSE /\ pc' = "fetch"
               /\ io' = io \o Preparation
    /\ UNCHANGED <<cfg, output, seed_keywords, response_text, max_expansions, inputVars, loopVars,
                   trends_data, data, inflight, log, outcomes, batches, status,
                   mainVars>>

\* lines 114-118: entry of fetch_google_trends; a ZeroDivisionError on line
\* 117 is caught nowhere and ends the run
FetchStart ==
    /\ pc = "fetch"
    /\ IF DivisionByZero(batch_size)
          THEN /\ total_batches' = total_batches
               /\ pc' = "crash"
          ELSE /\ total_batches' = TotalBatches(keywords, batch_size)
               /\ pc' = "for"
    /\ trends_data' = <<>>
    /\ UNCHANGED <<pipeVars, inputVars, it, i, kw_batch, attempt, data, inflight, log,
                   outcomes, batches, status, mainVars>>

\* line 120 with lines 105-110: the for loop asks the generator for the next
\* batch; the generator yields a non-empty slice
ForNextBatch ==
    /\ pc = "for"
    /\ ~isliceRaises(batch_size)
    /\ islice(keywords, it, batch_size) # <<>>
    /\ kw_batch' = islice(keywords, it, batch_size)
    /\ it' = it + Len(kw_batch')
    /\ i' = i + 1
    /\ attempt' = InitialAttempt(attempt)
    /\ batches' = Append(batches, kw_batch')
    /\ status' = Append(status, "Pending")
    /\ pc' = "while"
    /\ UNCHANGED <<pipeVars, inputVars, total_batches, trends_data, data, inflight, log,
                   outcomes, mainVars>>

\* lines 108-109 and 156: the slice is empty, the generator ends, the loop
\* ends and fetch_google_trends returns trends_data
ForExhausted ==
    /\ pc = "for"
    /\ ~isliceRaises(batch_size)
    /\ islice(keywords, it, batch_size) = <<>>
    /\ pc' = "return"
    /\ UNCHANGED <<pipeVars, inputVars, loopVars, trends_data, data, inflight, log,
                   outcomes, batches, status, mainVars>>

\* lines 107 and 120: the ValueError of islice leaves the generator and the
\* for loop, is caught nowhere and ends the run
ForRaises ==
    /\ pc = "for"
    /\ isliceRaises(batch_size)
    /\ pc' = "crash"
    /\ UNCHANGED <<pipeVars, inputVars, loopVars, trends_data, data, inflight, log,
                   outcomes, batches, status, mainVars>>

\* lines 122-126: attempt < retries, the request of this attempt goes out
IssueRequest ==
    /\ pc = "while"
    /\ WhileCondition(attempt)
    /\ inflight' = inflight \cup {Request(i, kw_batch)}
    /\ log' = Append(log, CallEvent(Request(i, kw_batch)))
    /\ status' = [status EXCEPT ![i] = "Attempting"]
    /\ data' = NoData
    /\ pc' = "await"
    /\ UNCHANGED <<pipeVars, inputVars, loopVars, trends_data, outcomes, batches, mainVars>>

\* line 122: the while condition is false on entry
WhileExit ==
    /\ pc = "while"
    /\ ~WhileCondition(attempt)
    /\ pc' = "for"
    /\ UNCHANGED <<pipeVars, inputVars, loopVars, trends_data, data, inflight, log,
                   outcomes, batches, status, mainVars>>

\* lines 131-143: a non-empty table
OnSuccess(r) ==
    /\ trends_data' = trends_data \o BatchRecords(kw_batch, DropIsPartial(r))
    /\ log' = SuccessSleep(log, i)
    /\ outcomes' = Append(outcomes, [batch |-> i, ok |-> TRUE, table |-> r])
    /\ status' = [status EXCEPT ![i] = "Succeeded"]
    /\ attempt' = attempt
    /\ pc' = AfterSuccess

\* lines 145-154: the except branch
OnFailure ==
    /\ attempt' = attempt + 1
    /\ trends_data' = trends_data
    /\ outcomes' = Append(outcomes, [batch |-> i, ok |-> FALSE, table |-> NoData])
    /\ IF ShouldRetry(attempt + 1)
          THEN /\ log' = RetrySleep(log, i, attempt + 1)
               /\ status' = status
               /\ pc' = "while"
          ELSE /\ log' = log
               /\ status' = [status EXCEPT ![i] = "Exhausted"]
               /\ pc' = AfterSkip

\* lines 126-154: the provider answers the outstanding request
Respond ==
    /\ pc = "await"
    /\ \E r \in Responses(kw_batch) :
          /\ data' = r
          /\ inflight' = inflight \ {Request(i, kw_batch)}
          /\ IF r.error \/ IsEmpty(r) THEN OnFailure ELSE OnSuccess(r)
    /\ UNCHANGED <<pipeVars, inputVars, it, i, kw_batch, total_batches, batches, mainVars>>

\* lines 205-248 of main: the frames built from what fetch returned, written
\* to the two output files; min_trends_score is read from the configuration
\* on line 219 only
MainMerge ==
    /\ pc = "return"
    /\ IF NoTrendsData(trends_data)
          THEN min_score' = min_score
          ELSE min_score' \in MinScores
    /\ trends_df' = BuildTrendsFrame(trends_data, keywords, min_score')
    /\ cpc_df' = CpcFrame(trends_df')
    /\ final_df' = BuildFinalFrame(trends_df', cpc_df')
    /\ pc' = "done"
    /\ output' = Written(final_df')
    /\ UNCHANGED <<cfg, io, seed_keywords, response_text, max_expansions,
                   keywords, batch_size, retries, backoff, delay, loopVars,
                   trends_data, data, inflight, log, outcomes, batches, status>>

Next ==
    \/ MainStart
    \/ FetchStart
    \/ ForRaises
    \/ ForNextBatch
    \/ ForExhausted
    \/ IssueRequest
    \/ WhileExit
    \/ Respond
    \/ MainMerge

Spec == Init /\ [][Next]_vars

\* the run of main() under the scheduling the code has: one thread, every
\* sleep ends and every provider call returns or raises
FairSpec == Init /\ [][Next]_vars /\ WF_vars(Next)

\* ------------------------------------------------- batch() applied alone
\* any finite list, duplicates included
BatchInputs == UNION {[1..n -> Range(SubSeq(Universe, 1, MaxKw))] : n \in 0..MaxKw}

AllPresent == [gemini_api_key |-> TRUE, brand_website |-> TRUE,
               competitor_website |-> TRUE]

InitBatch ==
    /\ cfg = AllPresent
    /\ seed_keywords = <<>>
    /\ response_text = <<>>
    /\ max_expansions = DefaultMaxExpansions
    /\ keywords \in BatchInputs
    /\ batch_size \in BatchSizes
    /\ retries = 0
    /\ backoff = DefaultBackoff
    /\ delay = DefaultDelay
    /\ pc = "batch"
    /\ Untouched

\* lines 107 and 110: the slice is not empty and is yielded
BatchYield ==
    /\ pc = "batch"
    /\ ~isliceRaises(batch_size)
    /\ islice(keywords, it, batch_size) # <<>>
    /\ batches' = Append(batches, islice(keywords, it, batch_size))
    /\ it' = it + Len(islice(keywords, it, batch_size))
    /\ UNCHANGED <<pipeVars, inputVars, pc, i, kw_batch, attempt, total_batches,
                   trends_data, data, inflight, log, outcomes, status, mainVars>>

\* lines 108-109: the slice is empty, the generator returns normally
BatchStop ==
    /\ pc = "batch"
    /\ ~isliceRaises(batch_size)
    /\ islice(keywords, it, batch_size) = <<>>
    /\ pc' = "batch_done"
    /\ UNCHANGED <<pipeVars, inputVars, loopVars, trends_data, data, inflight, log,
                   outcomes, batches, status, mainVars>>

\* line 107: islice raises ValueError
BatchRaises ==
    /\ pc = "batch"
    /\ isliceRaises(batch_size)
    /\ pc' = "batch_error"
    /\ UNCHANGED <<pipeVars, inputVars, loopVars, trends_data, data, inflight, log,
                   outcomes, batches, status, mainVars>>

NextBatch ==
    \/ BatchYield
    \/ BatchStop
    \/ BatchRaises

SpecBatch == InitBatch /\ [][NextBatch]_vars

\* ------------------------- expand_keywords_gemini_flash() applied alone
\* what extract_seed_keywords_from_text or the dummy list gives: distinct,
\* non-empty keywords
SeedLists == {SubSeq(Universe, 1, n) : n \in 1..MaxSeeds}

MaxExpansionValues == {1, DefaultMaxExpansions}

\* a line of the response after strip(): its first two characters and the
\* stripped rest
Marks == {"- ", "* ", ""}
Bodies == {""} \cup Range(SubSeq(Universe, 1, MaxSeeds + 1))
Lines == [mark : Marks, body : Bodies]

\* response.text; the empty text is also what generate_with_gemini returns
\* when the call raises
Texts == UNION {[1..n -> Lines] : n \in 0..MaxLines}

\* line.startswith("- ") or line.startswith("* "): a stripped line that is
\* only the mark has lost its blank and does not start with it
IsBullet(line) == line.mark \in {"- ", "* "} /\ line.body # ""

\* lines 93-100: the loop over the lines
RECURSIVE ParseLines(_, _, _, _)
ParseLines(lines, seeds, cap, acc) ==
    IF lines = <<>> THEN acc
    ELSE LET line == Head(lines)
             kw == line.body
             acc2 == IF IsBullet(line) /\ kw \notin Range(acc) /\ kw \notin Range(seeds)
                        THEN Append(acc, kw)
                        ELSE acc
         IN  IF IsBullet(line) /\ Len(acc2) >= cap
                THEN acc2
                ELSE ParseLines(Tail(lines), seeds, cap, acc2)

\* list(set(l)): the elements of l once each, in an order the build chooses
ListOfSet(l) == {f \in [1..Cardinality(Range(l)) -> Range(l)] : Range(f) = Range(l)}

FallbackNothing(seeds) == <<>>

\* return seed_keywords  # fallback
Fallback(seeds) == seeds

InitExpand ==
    /\ cfg = AllPresent
    /\ seed_keywords \in SeedLists
    /\ max_expansions \in MaxExpansionValues
    /\ response_text = <<>>
    /\ keywords = <<>>
    /\ batch_size = 1
    /\ retries = 0
    /\ backoff = DefaultBackoff
    /\ delay = DefaultDelay
    /\ pc = "expand"
    /\ Untouched

\* lines 83-88 and 48-57: the generation call; an exception gives ""
Generate ==
    /\ pc = "expand"
    /\ io' = Append(io, "generate_expansion")
    /\ response_text' \in Texts
    /\ pc' = "generated"
    /\ UNCHANGED <<cfg, output, seed_keywords, max_expansions, inputVars, loopVars,
                   trends_data, data, inflight, log, outcomes, batches, status,
                   mainVars>>

\* lines 89-101: the fallback or the parsed, deduplicated result
ExpandReturn ==
    /\ pc = "generated"
    /\ IF response_text = <<>>
          THEN keywords' = Fallback(seed_keywords)
          ELSE keywords' \in ListOfSet(seed_keywords \o
                   ParseLines(response_text, seed_keywords,
                              max_expansions * Len(seed_keywords), <<>>))
    /\ pc' = "expanded"
    /\ UNCHANGED <<pipeVars, batch_size, retries, backoff, delay, min_score, loopVars,
                   trends_data, data, inflight, log, outcomes, batches, status,
                   trends_df, cpc_df, final_df>>

NextExpand ==
    \/ Generate
    \/ ExpandReturn

SpecExpand == InitExpand /\ [][NextExpand]_vars

TypeOK ==
    /\ pc \in {"main", "aborted", "fetch", "crash", "for", "while", "await",
              "return", "done", "batch", "batch_done", "batch_error",
              "expand", "generated", "expanded"}
    /\ attempt \in 0..MaxRetries
    /\ Len(status) = Len(batches)

\* ------------------------------------------------------------ properties
Finished == pc \in {"return", "done"}

RecordKeywords(td) == [x \in 1..Len(td) |-> td[x].keyword]

\* the least number of batches of the given size that hold n keywords
CeilDiv(n, size) == CHOOSE c \in 0..n : c * size >= n /\ (c = 0 \/ (c - 1) * size < n)

CallsOf(b) == {p \in 1..Len(log) : log[p].ev = "call" /\ log[p].batch = b}
BackoffsOf(b) == {p \in 1..Len(log) : log[p].ev = "backoff" /\ log[p].batch = b}
DelaysOf(b) == {p \in 1..Len(log) : log[p].ev = "delay" /\ log[p].batch = b}
OkOutcomesOf(b) == {k \in 1..Len(outcomes) : outcomes[k].batch = b /\ outcomes[k].ok}

\* C1: the batches yielded so far are non-empty, full-sized except possibly
\* the last of the run, and concatenate to the consumed prefix of the input;
\* when the generator has ended they concatenate to the whole input in order,
\* the last has 1..size elements and there are ceil(len/size) of them (none
\* for an empty input).
C1_BatchPartition ==
    /\ Flatten(batches) = SubSeq(keywords, 1, it)
    /\ \A b \in 1..Len(batches) :
          /\ Len(batches[b]) >= 1
          /\ Len(batches[b]) <= batch_size
          /\ (b < Len(batches) => Len(batches[b]) = batch_size)
    /\ Finished =>
          /\ Flatten(batches) = keywords
          /\ Len(batches) = CeilDiv(Len(keywords), batch_size)
          /\ Len(batches) = total_batches
          /\ (keywords = <<>> => batches = <<>>)

C1_Witness ==
    /\ Finished
    /\ Len(batches) >= 2
    /\ Len(batches[Len(batches)]) < batch_size

\* C2 (as stated): for any retries >= 0, when every provider call that was
\* made returned a complete table, the returned records are exactly one per
\* input keyword.
CompleteTable(t, kwb) == ~t.error /\ t.rows >= 1 /\ Range(kwb) \subseteq t.cols

AllCallsComplete ==
    \A k \in 1..Len(outcomes) :
        outcomes[k].ok /\ CompleteTable(outcomes[k].table, batches[outcomes[k].batch])

C2_OneRecordPerKeyword ==
    (Finished /\ AllCallsComplete) => RecordKeywords(trends_data) = keywords

\* the records a batch contributes, read off the table that was accepted for it
ContributionOf(b) ==
    IF OkOutcomesOf(b) = {} THEN <<>>
    ELSE LET t == outcomes[CHOOSE k \in OkOutcomesOf(b) : TRUE].table
             present == SelectKw(batches[b], t.cols \ {IsPartial})
         IN  [x \in 1..Len(present) |->
                 [keyword |-> present[x],
                  trends_score |-> [num |-> SumSeq(t.series[present[x]]), den |-> t.rows]]]

RECURSIVE Contributions(_)
Contributions(n) == IF n = 0 THEN <<>> ELSE Contributions(n - 1) \o ContributionOf(n)

\* C3: a batch that failed `retries` attempts in a row (Exhausted) has none of
\* its keywords in the records; the run goes on: once it has returned, every
\* batch of the input was yielded, attempted and ended Succeeded or Exhausted,
\* and the records are the concatenation of what each succeeded batch
\* contributes by its own accepted table, the exhausted ones contributing
\* nothing.
C3_Isolation ==
    /\ \A b \in 1..Len(status) :
          status[b] = "Exhausted" =>
              /\ Cardinality(CallsOf(b)) = retries
              /\ \A x \in 1..Len(trends_data) :
                    trends_data[x].keyword \notin Range(batches[b])
    /\ (Finished /\ \E b \in 1..Len(status) : status[b] = "Exhausted") =>
          /\ Flatten(batches) = keywords
          /\ \A b \in 1..Len(status) :
                /\ status[b] \in {"Succeeded", "Exhausted"}
                /\ CallsOf(b) # {}
                /\ (status[b] = "Exhausted" => ContributionOf(b) = <<>>)
          /\ trends_data = Contributions(Len(batches))

C3_Witness ==
    /\ Finished
    /\ Len(status) = 3
    /\ status[1] = "Succeeded"
    /\ status[2] = "Exhausted"
    /\ status[3] = "Succeeded"
    /\ Len(trends_data) = 2

\* C4: every backoff sleep of a batch comes right after the k-th failed call
\* of that batch with k < retries, lasts backoff * k and is followed by the
\* next call of the same batch; a batch that exhausted its retries made
\* `retries` calls, slept backoff*1 .. backoff*(retries-1) in that order and
\* slept nothing else.
C4_LinearBackoff ==
    /\ \A p \in 1..Len(log) :
          log[p].ev = "backoff" =>
              LET b == log[p].batch
                  k == Cardinality({q \in CallsOf(b) : q < p})
              IN  /\ k >= 1
                  /\ k < retries
                  /\ log[p].dur = backoff * k
                  /\ log[p - 1].ev = "call" /\ log[p - 1].batch = b
                  /\ (p < Len(log) => log[p + 1].ev = "call" /\ log[p + 1].batch = b)
    /\ \A b \in 1..Len(status) :
          status[b] = "Exhausted" =>
              /\ Cardinality(CallsOf(b)) = retries
              /\ Cardinality(BackoffsOf(b)) = retries - 1
              /\ DelaysOf(b) = {}

C4_Witness ==
    /\ retries = 3
    /\ backoff = DefaultBackoff
    /\ \E b \in 1..Len(status) :
          /\ status[b] = "Exhausted"
          /\ \E p, q \in BackoffsOf(b) :
                p < q /\ log[p].dur = DefaultBackoff /\ log[q].dur = 2 * DefaultBackoff

\* C5 (as stated): no inter-batch delay sleep follows a batch that ended
\* Exhausted, and none follows the last batch of the run.
C5_NoDelayAfterExhaustedOrLast ==
    \A p \in 1..Len(log) :
        log[p].ev = "delay" =>
            /\ status[log[p].batch] # "Exhausted"
            /\ log[p].batch # total_batches

LastCallOf(b) == CHOOSE p \in CallsOf(b) : \A q \in CallsOf(b) : q <= p

\* C6: for a batch that Succeeded, its successful (last) provider call is
\* followed at once by one sleep of `delay`, and if any provider call comes
\* later, the next one comes right after that sleep and is the first call of
\* the following batch; when the run has returned, every succeeded batch but
\* the last was followed by such a call.
C6_ThrottleBetweenBatches ==
    /\ \A b \in 1..Len(status) :
          status[b] = "Succeeded" =>
              LET c == LastCallOf(b)
              IN  /\ CallsOf(b) # {}
                  /\ Len(log) >= c + 1
                  /\ log[c + 1].ev = "delay"
                  /\ log[c + 1].batch = b
                  /\ log[c + 1].dur = delay
                  /\ Cardinality(DelaysOf(b)) = 1
                  /\ (Len(log) >= c + 2 =>
                         /\ log[c + 2].ev = "call"
                         /\ log[c + 2].batch = b + 1
                         /\ \A q \in CallsOf(b + 1) : q >= c + 2)
    /\ Finished =>
          \A b \in 1..Len(status) :
              (status[b] = "Succeeded" /\ b < Len(batches)) => CallsOf(b + 1) # {}

C6_Witness ==
    /\ Finished
    /\ delay = DefaultDelay
    /\ Len(status) >= 2
    /\ status[1] = "Succeeded"
    /\ status[2] = "Succeeded"

\* what the except branch does to the state
FailureEffect ==
    /\ trends_data' = trends_data
    /\ attempt' = attempt + 1
    /\ inflight' = {}
    /\ IF attempt + 1 < retries
          THEN /\ pc' = "while"
               /\ status' = status
               /\ log' = Append(log, [ev |-> "backoff", batch |-> i, kws |-> <<>>,
                                      dur |-> backoff * (attempt + 1)])
          ELSE /\ pc' = "for"
               /\ status' = [status EXCEPT ![i] = "Exhausted"]
               /\ log' = log

\* C7: an answer that is an empty table (no rows or no columns) has exactly
\* the effect of a provider error: no record is appended, the attempt counter
\* goes up by one, then either the backoff sleep and a retry or Exhausted;
\* the batch is not Succeeded and no delay sleep is logged.
C7_EmptyIsFailure ==
    [][(pc = "await" /\ (data'.error \/ data'.rows = 0 \/ data'.cols = {}))
          => FailureEffect]_vars

C7_Witness ==
    /\ pc = "while"
    /\ attempt >= 1
    /\ outcomes # <<>>
    /\ ~outcomes[Len(outcomes)].ok
    /\ ~data.error
    /\ data.rows >= 1
    /\ data.cols = {}

PartialTable(t, kwb) ==
    /\ ~t.error
    /\ t.rows >= 1
    /\ t.cols # {}
    /\ ~(Range(kwb) \subseteq t.cols)

\* C8: a non-empty table that lacks some batch keywords is accepted on that
\* attempt: the batch is Succeeded, the attempt counter is untouched, one
\* record is appended for each batch keyword that is a column (in batch
\* order) and none for the others; and a batch that is Succeeded is never
\* called again.
C8_PartialAccepted ==
    [][/\ (pc = "await" /\ PartialTable(data', kw_batch)) =>
             /\ status' = [status EXCEPT ![i] = "Succeeded"]
             /\ pc' = "for"
             /\ attempt' = attempt
             /\ inflight' = {}
             /\ Len(trends_data') >= Len(trends_data)
             /\ SubSeq(trends_data', 1, Len(trends_data)) = trends_data
             /\ RecordKeywords(trends_data') =
                    RecordKeywords(trends_data) \o SelectKw(kw_batch, data'.cols)
       /\ \A b \in 1..Len(status) :
             status[b] = "Succeeded" =>
                 /\ status'[b] = "Succeeded"
                 /\ (Len(log') > Len(log) /\ log'[Len(log')].ev = "call")
                        => log'[Len(log')].batch # b
      ]_vars

C8_Witness ==
    /\ pc = "for"
    /\ Len(kw_batch) >= 2
    /\ status[i] = "Succeeded"
    /\ PartialTable(data, kw_batch)
    /\ Range(kw_batch) \cap data.cols # {}
    /\ Len(trends_data) = Cardinality(Range(kw_batch) \cap data.cols)

\* C9: at most one request is outstanding, and it is the request of the
\* current batch; every provider call carries exactly the keywords of its
\* batch, is issued when all earlier batches are Succeeded or Exhausted, and
\* calls come in non-decreasing batch order; every call is answered before
\* the next one is issued.
C9_Sequential ==
    /\ Cardinality(inflight) <= 1
    /\ (inflight # {} <=> pc = "await")
    /\ inflight \subseteq {[batch |-> i, kws |-> kw_batch]}
    /\ Cardinality({p \in 1..Len(log) : log[p].ev = "call"})
           = Len(outcomes) + Cardinality(inflight)
    /\ \A p \in 1..Len(log) :
          log[p].ev = "call" =>
              /\ log[p].batch \in 1..Len(batches)
              /\ log[p].kws = batches[log[p].batch]
              /\ \A b \in 1..(log[p].batch - 1) : status[b] \in {"Succeeded", "Exhausted"}
              /\ \A q \in 1..(p - 1) : log[q].ev = "call" => log[q].batch <= log[p].batch

C9_Witness ==
    /\ pc = "await"
    /\ i = 2
    /\ Len(batches[1]) = 2
    /\ status[1] = "Exhausted"
    /\ inflight # {}

FinalKeywords == [x \in 1..Len(final_df.rows) |-> final_df.rows[x].keyword]

\* no record of trends_data has trends_score >= min_score
FilteredEmpty ==
    \A x \in 1..Len(trends_data) :
        trends_data[x].trends_score.num < min_score * trends_data[x].trends_score.den

FallbackPath == pc = "done" /\ trends_data = <<>>

\* the run took the filter path: fetch returned some record
FilterPath == pc = "done" /\ trends_data # <<>>

Keeps(r) == r.trends_score.num >= min_score * r.trends_score.den

KeptRecords == SelectSeq(trends_data, Keeps)

\* C12: on the filter path the final records are, in order, one for each
\* fetched record that passed the minimum score, with that record's keyword
\* and score; no keyword occurs twice and none comes from outside the
\* filtered records.
C12_LeftJoin ==
    FilterPath =>
        /\ Len(final_df.rows) = Len(KeptRecords)
        /\ \A x \in 1..Len(final_df.rows) :
              /\ final_df.rows[x].keyword = KeptRecords[x].keyword
              /\ final_df.rows[x].trends_score = KeptRecords[x].trends_score
        /\ \A x, y \in 1..Len(final_df.rows) :
              final_df.rows[x].keyword = final_df.rows[y].keyword => x = y
        /\ Range(FinalKeywords) \subseteq Range(RecordKeywords(KeptRecords))

C12_Witness ==
    /\ FilterPath
    /\ Len(KeptRecords) >= 2
    /\ Len(final_df.rows) = Len(KeptRecords)
    /\ final_df.rows[2].cpc_usd # NullCpc

\* C13: on the filter path a fetched record is kept for merging exactly when
\* its trends_score >= min_score (a score equal to min_score is kept), the
\* kept records keep their order, and with min_score = 0 all are kept.
C13_MinScoreFilter ==
    FilterPath =>
        /\ \A x \in 1..Len(trends_data) :
              (\E y \in 1..Len(trends_df.rows) :
                   /\ trends_df.rows[y].keyword = trends_data[x].keyword
                   /\ trends_df.rows[y].trends_score = trends_data[x].trends_score)
              <=> trends_data[x].trends_score.num >=
                      min_score * trends_data[x].trends_score.den
        /\ Len(trends_df.rows) = Len(KeptRecords)
        /\ [y \in 1..Len(trends_df.rows) |-> trends_df.rows[y].keyword]
               = RecordKeywords(KeptRecords)
        /\ (min_score = 0 => Len(trends_df.rows) = Len(trends_data))

C13_Witness ==
    /\ FilterPath
    /\ min_score = 50
    /\ Len(trends_data) = 2
    /\ Len(trends_df.rows) = 1
    /\ trends_df.rows[1].keyword = trends_data[2].keyword

\* the generator batch() has ended, normally or with an error
BatchEnded == pc \in {"batch_done", "batch_error"}

\* C14 (as stated): splitting a non-empty keyword list with a batch size of
\* 0 or less ends in an error outcome with no batch produced, never in a
\* normal return with zero batches.
C14_BatchSizeRejected ==
    (BatchEnded /\ keywords # <<>> /\ batch_size < 1) =>
        (pc = "batch_error" /\ batches = <<>>)

\* line 156: what fetch_google_trends hands to its caller
Returned == [records |-> trends_data]

\* the input keywords for which no record was produced
MissingKeywords == Range(keywords) \ Range(RecordKeywords(trends_data))

\* C15 (as stated): when fetch_google_trends returns, what it hands to its
\* caller carries the set of keywords without a record, and that set is the
\* input keywords minus the keywords of the returned records.
C15_ReportsMissingKeywords ==
    pc = "return" =>
        /\ "missing" \in DOMAIN Returned
        /\ Returned.missing = MissingKeywords

\* the run of main has ended, by a return or by an uncaught exception
RunEnded == pc \in {"aborted", "done", "crash"}

NoDuplicates(l) == \A x, y \in 1..Len(l) : l[x] = l[y] => x = y

\* the keywords the response lists as bullets
BulletBodies(text) == {text[n].body : n \in {m \in 1..Len(text) : IsBullet(text[m])}}

\* C17: the list keyword expansion returns has no keyword twice, contains
\* every seed keyword and nothing but seeds and bulleted keywords of the
\* response; when the generation gave no text (or raised) it is the seed list
\* itself.
C17_ExpandKeepsSeeds ==
    pc = "expanded" =>
        /\ NoDuplicates(keywords)
        /\ Range(seed_keywords) \subseteq Range(keywords)
        /\ Range(keywords) \subseteq Range(seed_keywords) \cup BulletBodies(response_text)
        /\ (response_text = <<>> => keywords = seed_keywords)

C17_Witness ==
    /\ pc = "expanded"
    /\ Len(response_text) = 2
    /\ IsBullet(response_text[1])
    /\ response_text[2] = response_text[1]
    /\ response_text[1].body \notin Range(seed_keywords)
    /\ Len(seed_keywords) = 2
    /\ Len(keywords) = 3
    /\ keywords[1] = response_text[1].body

AllCalls == {p \in 1..Len(log) : log[p].ev = "call"}

\* C18: at every moment each batch has been requested at most `retries`
\* times, and for a batch size >= 1 at most retries * ceil(len/size) requests
\* were made in all; a fetch entered with a batch size >= 1 returns.
C18_BoundedAttempts ==
    /\ [](/\ \A b \in 1..Len(batches) : Cardinality(CallsOf(b)) <= retries
          /\ batch_size >= 1 =>
                Cardinality(AllCalls) <= retries * CeilDiv(Len(keywords), batch_size))
    /\ ((pc = "fetch" /\ batch_size >= 1) ~> (pc = "return"))

C18_Witness ==
    /\ pc = "return"
    /\ retries = MaxRetries
    /\ Len(batches) = 2
    /\ Cardinality(AllCalls) = retries * CeilDiv(Len(keywords), batch_size)
    /\ \A b \in 1..Len(batches) : status[b] = "Exhausted"

\* the step recorded a failed attempt
FailedStep ==
    /\ Len(outcomes') = Len(outcomes) + 1
    /\ ~outcomes'[Len(outcomes')].ok

\* C19: the accumulated records never hold a keyword twice; a failed attempt
\* leaves the records as they were; a batch that has succeeded is not
\* requested again.
C19_NoDuplicateRecords ==
    [][/\ NoDuplicates(RecordKeywords(trends_data'))
       /\ (FailedStep => trends_data' = trends_data)
       /\ \A b \in 1..Len(status) :
             status[b] = "Succeeded" =>
                 {p \in 1..Len(log') : log'[p].ev = "call" /\ log'[p].batch = b} = CallsOf(b)
      ]_vars

C19_Witness ==
    /\ pc = "return"
    /\ Len(batches) = 2
    /\ \A b \in 1..2 : status[b] = "Succeeded" /\ Cardinality(CallsOf(b)) = 2
    /\ Len(trends_data) = Len(keywords)
    /\ Len(keywords) = 3

FailedOutcomesOf(b) == {k \in 1..Len(outcomes) : outcomes[k].batch = b /\ ~outcomes[k].ok}

\* the batches the loop has left behind
CompletedBatches ==
    IF pc \in {"while", "await"} THEN 1..(Len(batches) - 1) ELSE 1..Len(batches)

\* C20: while a batch is in the retry loop the attempt counter is the number
\* of failed attempts of that batch alone; a batch is Exhausted only with
\* exactly `retries` failed attempts of its own and no success; every batch
\* the loop has left either succeeded after fewer than `retries` failures of
\* its own or failed exactly `retries` times, whatever the earlier batches
\* did.
C20_RetryBudgetPerBatch ==
    /\ pc \in {"while", "await"} => attempt = Cardinality(FailedOutcomesOf(i))
    /\ \A b \in 1..Len(status) :
          status[b] = "Exhausted" =>
              /\ Cardinality(FailedOutcomesOf(b)) = retries
              /\ OkOutcomesOf(b) = {}
    /\ \A b \in CompletedBatches :
          \/ /\ Cardinality(OkOutcomesOf(b)) = 1
             /\ Cardinality(FailedOutcomesOf(b)) < retries
          \/ /\ OkOutcomesOf(b) = {}
             /\ Cardinality(FailedOutcomesOf(b)) = retries

C20_Witness ==
    /\ pc = "return"
    /\ retries = 2
    /\ Len(batches) = 3
    /\ status[1] = "Exhausted"
    /\ status[2] = "Succeeded"
    /\ Cardinality(FailedOutcomesOf(2)) = 1
    /\ status[3] = "Exhausted"

====
